---- MODULE Spec2Model ----
(***************************************************************************)
(* Model of the singly linked list of src/src/main.rs.                     *)
(*                                                                         *)
(* Nodes are Rc<RefCell<Node<T>>> cells.  The heap is the sequence of all  *)
(* cells ever allocated by Node::new, a cell's identity is its index in    *)
(* that sequence and a Link<T> is either Nil (None) or such an index.      *)
(* Cells are reference counted, so a cell that is still named by a head, a *)
(* tail or a next field is never freed; cells nobody names any more stay   *)
(* in the heap as garbage.                                                 *)
(*                                                                         *)
(* split_on_nth consumes its list and returns two lists, so the program    *)
(* holds several list values: `lists` is the sequence of the list values   *)
(* created so far, a consumed and dropped one being marked not live.       *)
(*                                                                         *)
(* `last` records the most recent call: its name, the list it was applied  *)
(* to, its arguments, its result and the heap and lists it started from.   *)
(*                                                                         *)
(* `status` is "running" until the program panics: "aborted" on the        *)
(* arithmetic overflow of split_on_nth(0), "already_borrowed" on a failed  *)
(* RefCell borrow.                                                         *)
(*                                                                         *)
(* `iters` are the LinkedListNodeIter values the caller holds (SpecIter).  *)
(* `borrows` is the borrow flag of each cell's RefCell and `frame` the     *)
(* call that is being executed statement by statement (SpecSteps); Spec,   *)
(* SpecPushes and SpecIter run every call to completion in one step.       *)
(***************************************************************************)
EXTENDS Integers, Sequences, FiniteSets, TLC

VARIABLES heap, lists, last, status, iters, borrows, frame

vars == <<heap, lists, last, status, iters, borrows, frame>>

(* what a call that runs to completion leaves as it found it: the          *)
(* iterators the caller holds, the borrow flags of the cells (every Ref    *)
(* and RefMut it takes is a temporary of one statement) and the call stack *)
aux == <<iters, borrows, frame>>

(* Bounds of the model: the cells ever allocated, the values of T, the list *)
(* values ever created (each successful split creates one), and the width  *)
(* of usize, scaled down from the target's 32 or 64 bits (usize::MAX only  *)
(* has to exceed every list length).                                       *)
MaxNodes == 3
MaxVal == 2
MaxLists == 2
UsizeBits == 8

(* the iterators the caller holds at once *)
MaxIters == 2

(* the values of T stored in the cells *)
Values == 1..MaxVal

(* the positions n, nth: usize that the calls are tried with *)
Indices == 0..MaxNodes

(* Link<T> = Option<Rc<RefCell<Node<T>>>>: None *)
Nil == 0

(* Iterator::next returning None (the iterator is exhausted) *)
NoItem == 0 - 1

(* Node { value, next } *)
Node(value, next) == [value |-> value, next |-> next]

(* LinkedList { head, tail } *)
LinkedList(head, tail) == [head |-> head, tail |-> tail, live |-> TRUE]

(* a list value that was moved into a call and dropped there *)
Dropped == [head |-> Nil, tail |-> Nil, live |-> FALSE]

(* Node::new: the cell is allocated at the end of the heap *)
Alloc(h, value, next) == Append(h, Node(value, next))

(* LinkedListNodeIter::next: yields the current cell and advances to its  *)
(* next; iterating to exhaustion yields the sequence of cells from cur.    *)
(* fuel bounds the walk by the number of cells.                            *)
RECURSIVE Walk(_, _, _)
Walk(h, cur, fuel) ==
    IF cur = Nil \/ fuel = 0
    THEN <<>>
    ELSE <<cur>> \o Walk(h, h[cur].next, fuel - 1)

(* self.iter() run to exhaustion: the cells in iteration order *)
ToSeq(h, l) == Walk(h, l.head, Len(h) + 1)

(* the values in iteration order *)
ValuesOf(h, l) == [k \in 1..Len(ToSeq(h, l)) |-> h[ToSeq(h, l)[k]].value]

(* an nth that stops at the last cell instead of running off the end       *)
RECURSIVE IterNthClamped(_, _, _)
IterNthClamped(h, cur, k) ==
    IF cur = Nil
    THEN NoItem
    ELSE IF k = 0 \/ h[cur].next = Nil
         THEN cur
         ELSE IterNthClamped(h, h[cur].next, k - 1)

(* an nth that counts positions from 1                                      *)
RECURSIVE IterNthOneBased(_, _, _)
IterNthOneBased(h, cur, k) ==
    IF cur = Nil \/ k = 0
    THEN NoItem
    ELSE IF k = 1 THEN cur ELSE IterNthOneBased(h, h[cur].next, k - 1)

(* Iterator::nth(k) on an iterator positioned at cur: k calls of next      *)
(* whose results are thrown away, then the result of one more call.        *)
RECURSIVE IterNth(_, _, _)
IterNth(h, cur, k) ==
    IF cur = Nil
    THEN NoItem
    ELSE IF k = 0 THEN cur ELSE IterNth(h, h[cur].next, k - 1)

(* usize subtraction without overflow checks: wraps modulo 2^UsizeBits *)
WrappingSub(a, b) == (a - b) % (2 ^ UsizeBits)

(* an insertion that forgets the located cell's old next                  *)
LinkAfterDroppingChild(h, nth_node, v) ==
    [Alloc(h, v, Nil) EXCEPT ![nth_node].next = Len(h) + 1]

(* an insertion that points the new cell back at the located cell          *)
LinkAfterBackwards(h, nth_node, v) ==
    [Alloc(h, v, nth_node) EXCEPT ![nth_node].next = Len(h) + 1]

(* push_after_n once the cell is located: the new cell takes the located   *)
(* cell's next, and the located cell's next becomes the new cell           *)
LinkAfter(h, nth_node, v) ==
    LET child == h[nth_node].next
    IN [Alloc(h, v, child) EXCEPT ![nth_node].next = Len(h) + 1]

(* a split that leaves the chain in one piece                              *)
SeverAfterForgotten(h, nth_node) == h

(* split_on_nth: the located cell's next is set to None                    *)
SeverAfter(h, nth_node) == [h EXCEPT ![nth_node].next = Nil]

(* the record of a call: what was called on which list with which          *)
(* arguments, what it returned, and the heap and lists it started from     *)
Call(op, lst, n, v, res, node) ==
    [op |-> op, lst |-> lst, n |-> n, v |-> v, res |-> res, node |-> node,
     heap |-> heap, lists |-> lists]

(* a call being executed: the method, the statement it stands at, the list *)
(* it was called on, its arguments and its locals: the current of the      *)
(* iterator it made and the count nth still has to skip, the cell it       *)
(* located or took, the next it cloned and the cell it allocated           *)
Frame(op, pc, lst, n, v, cur, k, node, child, new) ==
    [op |-> op, pc |-> pc, lst |-> lst, n |-> n, v |-> v, cur |-> cur,
     k |-> k, node |-> node, child |-> child, new |-> new]

(* no call is being executed *)
Idle == Frame("idle", "idle", 0, 0, 0, Nil, 0, Nil, Nil, Nil)

(* LinkedList::new *)
Init ==
    /\ heap = <<>>
    /\ lists = <<LinkedList(Nil, Nil)>>
    /\ status = "running"
    /\ last = Call("new", 1, 0, 0, "Ok", Nil)
    /\ iters = <<>>
    /\ borrows = [c \in 1..MaxNodes |-> 0]
    /\ frame = Idle

(* a call can be made on list i *)
Callable(i) == status = "running" /\ i \in 1..Len(lists) /\ lists[i].live

(* a push_back that links the new cell but leaves tail on the old one      *)
push_back_keeping_tail(i, v) ==
    /\ Callable(i)
    /\ UNCHANGED aux
    /\ Len(heap) < MaxNodes
    /\ LET new == Len(heap) + 1
           node == lists[i].tail
       IN IF node = Nil
          THEN /\ heap' = Alloc(heap, v, Nil)
               /\ lists' = [lists EXCEPT ![i].head = new, ![i].tail = new]
          ELSE /\ heap' = [Alloc(heap, v, Nil) EXCEPT ![node].next = new]
               /\ lists' = lists
    /\ last' = Call("push_back", i, 0, v, "Ok", Nil)
    /\ UNCHANGED status

(* LinkedList::push_back *)
push_back(i, v) ==
    /\ Callable(i)
    /\ UNCHANGED aux
    /\ Len(heap) < MaxNodes
    /\ LET new == Len(heap) + 1
           node == lists[i].tail
       IN IF node = Nil
          THEN /\ heap' = Alloc(heap, v, Nil)
               /\ lists' = [lists EXCEPT ![i].head = new, ![i].tail = new]
          ELSE /\ heap' = [Alloc(heap, v, Nil) EXCEPT ![node].next = new]
               /\ lists' = [lists EXCEPT ![i].tail = new]
    /\ last' = Call("push_back", i, 0, v, "Ok", Nil)
    /\ UNCHANGED status

(* a push_front that sets tail to the new cell in both branches            *)
push_front_moving_tail(i, v) ==
    /\ Callable(i)
    /\ UNCHANGED aux
    /\ Len(heap) < MaxNodes
    /\ LET new == Len(heap) + 1
           node == lists[i].head
       IN IF node = Nil
          THEN /\ heap' = Alloc(heap, v, Nil)
               /\ lists' = [lists EXCEPT ![i].head = new, ![i].tail = new]
          ELSE /\ heap' = Alloc(heap, v, node)
               /\ lists' = [lists EXCEPT ![i].head = new, ![i].tail = new]
    /\ last' = Call("push_front", i, 0, v, "Ok", Nil)
    /\ UNCHANGED status

(* LinkedList::push_front *)
push_front(i, v) ==
    /\ Callable(i)
    /\ UNCHANGED aux
    /\ Len(heap) < MaxNodes
    /\ LET new == Len(heap) + 1
           node == lists[i].head
       IN IF node = Nil
          THEN /\ heap' = Alloc(heap, v, Nil)
               /\ lists' = [lists EXCEPT ![i].head = new, ![i].tail = new]
          ELSE /\ heap' = Alloc(heap, v, node)
               /\ lists' = [lists EXCEPT ![i].head = new]
    /\ last' = Call("push_front", i, 0, v, "Ok", Nil)
    /\ UNCHANGED status

(* a push_after_n that moves tail to the new cell when it becomes the last *)
push_after_n_moving_tail(i, n, v) ==
    /\ Callable(i)
    /\ UNCHANGED aux
    /\ LET nth_node == IterNth(heap, lists[i].head, n)
       IN IF nth_node = NoItem
          THEN /\ last' = Call("push_after_n", i, n, v, "Err", Nil)
               /\ UNCHANGED <<heap, lists>>
          ELSE /\ Len(heap) < MaxNodes
               /\ heap' = LinkAfter(heap, nth_node, v)
               /\ lists' = IF heap[nth_node].next = Nil
                           THEN [lists EXCEPT ![i].tail = Len(heap) + 1]
                           ELSE lists
               /\ last' = Call("push_after_n", i, n, v, "Ok", Nil)
    /\ UNCHANGED status

(* LinkedList::push_after_n *)
push_after_n(i, n, v) ==
    /\ Callable(i)
    /\ UNCHANGED aux
    /\ LET nth_node == IterNth(heap, lists[i].head, n)
       IN IF nth_node = NoItem
          THEN /\ last' = Call("push_after_n", i, n, v, "Err", Nil)
               /\ UNCHANGED <<heap, lists>>
          ELSE /\ Len(heap) < MaxNodes
               /\ heap' = LinkAfter(heap, nth_node, v)
               /\ last' = Call("push_after_n", i, n, v, "Ok", Nil)
               /\ UNCHANGED lists
    /\ UNCHANGED status

(* LinkedList::get_nth *)
get_nth(i, nth) ==
    /\ Callable(i)
    /\ UNCHANGED aux
    /\ LET node == IterNth(heap, lists[i].head, nth)
       IN IF node = NoItem
          THEN last' = Call("get_nth", i, nth, 0, "Err", Nil)
          ELSE last' = Call("get_nth", i, nth, 0, "Ok", node)
    /\ UNCHANGED <<heap, lists, status>>

(* an update_nth that locates the cell and then writes the head cell       *)
update_nth_at_head(i, nth, v) ==
    /\ Callable(i)
    /\ UNCHANGED aux
    /\ LET node == IterNth(heap, lists[i].head, nth)
       IN IF node = NoItem
          THEN /\ last' = Call("update_nth", i, nth, v, "Err", Nil)
               /\ UNCHANGED heap
          ELSE /\ heap' = [heap EXCEPT ![lists[i].head].value = v]
               /\ last' = Call("update_nth", i, nth, v, "Ok", Nil)
    /\ UNCHANGED <<lists, status>>

(* LinkedList::update_nth *)
update_nth(i, nth, v) ==
    /\ Callable(i)
    /\ UNCHANGED aux
    /\ LET node == IterNth(heap, lists[i].head, nth)
       IN IF node = NoItem
          THEN /\ last' = Call("update_nth", i, nth, v, "Err", Nil)
               /\ UNCHANGED heap
          ELSE /\ heap' = [heap EXCEPT ![node].value = v]
               /\ last' = Call("update_nth", i, nth, v, "Ok", Nil)
    /\ UNCHANGED <<lists, status>>

(* LinkedList::split_on_nth.  n - 1 on usize with n = 0 overflows: a build *)
(* with overflow checks panics there, a build without them wraps.  The     *)
(* list is moved into the call, so a call that returns Err drops it.       *)
split_on_nth(i, n) ==
    /\ Callable(i)
    /\ UNCHANGED aux
    /\ \/ /\ n = 0
          /\ status' = "aborted"
          /\ last' = Call("split_on_nth", i, n, 0, "Panic", Nil)
          /\ UNCHANGED <<heap, lists>>
       \/ /\ LET nth_node == IterNth(heap, lists[i].head, WrappingSub(n, 1))
             IN IF nth_node = NoItem
                THEN /\ lists' = [lists EXCEPT ![i] = Dropped]
                     /\ last' = Call("split_on_nth", i, n, 0, "Err", Nil)
                     /\ UNCHANGED heap
                ELSE /\ Len(lists) < MaxLists
                     /\ LET sec_lst == LinkedList(heap[nth_node].next, lists[i].tail)
                        IN lists' = Append(lists, sec_lst)
                     /\ heap' = SeverAfter(heap, nth_node)
                     /\ last' = Call("split_on_nth", i, n, 0, "Ok", nth_node)
          /\ UNCHANGED status

Next ==
    \/ \E i \in 1..MaxLists, v \in Values : push_back(i, v)
    \/ \E i \in 1..MaxLists, v \in Values : push_front(i, v)
    \/ \E i \in 1..MaxLists, n \in Indices, v \in Values : push_after_n(i, n, v)
    \/ \E i \in 1..MaxLists, n \in Indices : get_nth(i, n)
    \/ \E i \in 1..MaxLists, n \in Indices, v \in Values : update_nth(i, n, v)
    \/ \E i \in 1..MaxLists, n \in Indices : split_on_nth(i, n)

(* LinkedListNodeIter { current }, with the list it was made from and the  *)
(* cells it has yielded so far                                             *)
LinkedListNodeIter(lst, current) ==
    [lst |-> lst, current |-> current, yielded |-> <<>>]

(* an iter() that starts where the previous iterator of the list stands    *)
iter_sharing_cursor(i) ==
    /\ Callable(i)
    /\ Len(iters) < MaxIters
    /\ LET prev == {k \in 1..Len(iters) : iters[k].lst = i}
           start == IF prev = {}
                    THEN lists[i].head
                    ELSE iters[CHOOSE k \in prev : TRUE].current
       IN /\ iters' = Append(iters, LinkedListNodeIter(i, start))
          /\ last' = Call("iter", i, 0, 0, "Ok", start)
    /\ UNCHANGED <<heap, lists, status, borrows, frame>>

(* LinkedList::iter: a new iterator whose current is a clone of head *)
iter(i) ==
    /\ Callable(i)
    /\ Len(iters) < MaxIters
    /\ iters' = Append(iters, LinkedListNodeIter(i, lists[i].head))
    /\ last' = Call("iter", i, 0, 0, "Ok", lists[i].head)
    /\ UNCHANGED <<heap, lists, status, borrows, frame>>

(* LinkedListNodeIter::next on the k-th iterator the caller holds *)
iter_next(k) ==
    /\ status = "running"
    /\ k \in 1..Len(iters)
    /\ LET node == iters[k].current
       IN IF node = Nil
          THEN /\ iters' = iters
               /\ last' = Call("next", iters[k].lst, k, 0, "None", Nil)
          ELSE /\ iters' = [iters EXCEPT ![k].current = heap[node].next,
                                         ![k].yielded = Append(@, node)]
               /\ last' = Call("next", iters[k].lst, k, 0, "Some", node)
    /\ UNCHANGED <<heap, lists, status, borrows, frame>>

(* traversals with no mutation in between: the list is built first, and    *)
(* once the caller holds an iterator only iter, next and get_nth are called *)
NextIter ==
    \/ iters = <<>> /\ Next
    \/ \E i \in 1..MaxLists : iter(i)
    \/ \E k \in 1..MaxIters : iter_next(k)
    \/ \E i \in 1..MaxLists, n \in Indices : iters # <<>> /\ get_nth(i, n)

SpecIter == Init /\ [][NextIter]_vars

(***************************************************************************)
(* The calls statement by statement, with the borrow flag of every cell:   *)
(* 0 when the cell is not borrowed, the number of live Ref when it is      *)
(* borrowed shared, -1 while a RefMut is live.  borrow() panics on a cell  *)
(* that is mutably borrowed and borrow_mut() on a cell that is borrowed at *)
(* all; the Ref and RefMut are temporaries, dropped at the end of the      *)
(* statement that took them.                                               *)
(***************************************************************************)
Executing(pc) == status = "running" /\ frame.pc = pc

(* the cell the call writes through borrow_mut: the new cell in push_front, *)
(* the located or taken cell in the others                                 *)
Target == IF frame.op = "push_front" THEN frame.new ELSE frame.node

(* push_back up to the match: the new cell is allocated and tail is taken; *)
(* on an empty tail the call sets head and tail and returns                *)
call_push_back(i, v) ==
    /\ frame = Idle
    /\ Callable(i)
    /\ Len(heap) < MaxNodes
    /\ heap' = Alloc(heap, v, Nil)
    /\ LET new == Len(heap) + 1
           node == lists[i].tail
       IN IF node = Nil
          THEN /\ lists' = [lists EXCEPT ![i].head = new, ![i].tail = new]
               /\ frame' = Idle
          ELSE /\ lists' = [lists EXCEPT ![i].tail = Nil]
               /\ frame' = Frame("push_back", "write", i, 0, v, Nil, 0, node, Nil, new)
    /\ UNCHANGED <<last, status, iters, borrows>>

(* push_front up to the match: the new cell is allocated and head is taken *)
call_push_front(i, v) ==
    /\ frame = Idle
    /\ Callable(i)
    /\ Len(heap) < MaxNodes
    /\ heap' = Alloc(heap, v, Nil)
    /\ LET new == Len(heap) + 1
           node == lists[i].head
       IN IF node = Nil
          THEN /\ lists' = [lists EXCEPT ![i].head = new, ![i].tail = new]
               /\ frame' = Idle
          ELSE /\ lists' = [lists EXCEPT ![i].head = Nil]
               /\ frame' = Frame("push_front", "write", i, 0, v, Nil, 0, node, Nil, new)
    /\ UNCHANGED <<last, status, iters, borrows>>

(* push_after_n, get_nth and update_nth start with self.iter().nth(n) *)
call_nth(op, i, n, v) ==
    /\ frame = Idle
    /\ Callable(i)
    /\ op = "push_after_n" =>
          Len(heap) < MaxNodes \/ IterNth(heap, lists[i].head, n) = NoItem
    /\ frame' = Frame(op, "next", i, n, v, lists[i].head, n, Nil, Nil, Nil)
    /\ UNCHANGED <<heap, lists, last, status, iters, borrows>>

(* split_on_nth starts with self.iter().nth(n - 1); with n = 0 the         *)
(* subtraction panics or wraps                                             *)
call_split_on_nth(i, n) ==
    /\ frame = Idle
    /\ Callable(i)
    /\ \/ /\ n = 0
          /\ status' = "aborted"
          /\ UNCHANGED frame
       \/ /\ Len(lists) < MaxLists
                \/ IterNth(heap, lists[i].head, WrappingSub(n, 1)) = NoItem
          /\ frame' = Frame("split_on_nth", "next", i, n, 0, lists[i].head,
                            WrappingSub(n, 1), Nil, Nil, Nil)
          /\ UNCHANGED status
    /\ UNCHANGED <<heap, lists, last, iters, borrows>>

(* LinkedListNodeIter::next, first half: current is taken; on None the     *)
(* iterator is exhausted, nth returns None and the call returns the error  *)
(* (split_on_nth drops the list it consumed); on Some(node), node.borrow() *)
next_take ==
    /\ Executing("next")
    /\ IF frame.cur = Nil
       THEN /\ frame' = Idle
            /\ lists' = IF frame.op = "split_on_nth"
                        THEN [lists EXCEPT ![frame.lst] = Dropped]
                        ELSE lists
            /\ UNCHANGED <<borrows, status>>
       ELSE /\ UNCHANGED lists
            /\ IF borrows[frame.cur] >= 0
               THEN /\ borrows' = [borrows EXCEPT ![frame.cur] = @ + 1]
                    /\ frame' = [frame EXCEPT !.pc = "next_clone",
                                              !.node = frame.cur, !.cur = Nil]
                    /\ UNCHANGED status
               ELSE /\ status' = "already_borrowed"
                    /\ UNCHANGED <<borrows, frame>>
    /\ UNCHANGED <<heap, last, iters>>

(* LinkedListNodeIter::next, second half: current becomes a clone of the   *)
(* cell's next, the Ref is dropped and the cell is yielded; nth throws it  *)
(* away and goes on, or returns it when it has skipped enough              *)
next_clone ==
    /\ Executing("next_clone")
    /\ borrows' = [borrows EXCEPT ![frame.node] = @ - 1]
    /\ IF frame.k > 0
       THEN frame' = [frame EXCEPT !.pc = "next", !.cur = heap[frame.node].next,
                                  !.k = @ - 1, !.node = Nil]
       ELSE frame' = CASE frame.op = "get_nth" -> Idle
                       [] frame.op = "update_nth" ->
                             [frame EXCEPT !.pc = "write", !.cur = Nil]
                       [] OTHER -> [frame EXCEPT !.pc = "read", !.cur = Nil]
    /\ UNCHANGED <<heap, lists, last, status, iters>>

(* nth_node.borrow() of push_after_n and split_on_nth *)
borrow_next ==
    /\ Executing("read")
    /\ IF borrows[frame.node] >= 0
       THEN /\ borrows' = [borrows EXCEPT ![frame.node] = @ + 1]
            /\ frame' = [frame EXCEPT !.pc = "read_clone"]
            /\ UNCHANGED status
       ELSE /\ status' = "already_borrowed"
            /\ UNCHANGED <<borrows, frame>>
    /\ UNCHANGED <<heap, lists, last, iters>>

(* a clone of next whose Ref is kept in a local of the call                *)
clone_next_keeping_ref ==
    /\ Executing("read_clone")
    /\ frame' = [frame EXCEPT !.pc = "write", !.child = heap[frame.node].next]
    /\ UNCHANGED <<heap, lists, last, status, iters, borrows>>

(* .next.clone() of push_after_n and split_on_nth: the statement ends and  *)
(* its Ref is dropped                                                      *)
clone_next ==
    /\ Executing("read_clone")
    /\ frame' = [frame EXCEPT !.pc = "write", !.child = heap[frame.node].next]
    /\ borrows' = [borrows EXCEPT ![frame.node] = @ - 1]
    /\ UNCHANGED <<heap, lists, last, status, iters>>

(* borrow_mut() of the assignments; push_after_n has evaluated the right   *)
(* hand side, Node::new(value, child), before                              *)
borrow_mut ==
    /\ Executing("write")
    /\ IF borrows[Target] = 0
       THEN /\ borrows' = [borrows EXCEPT ![Target] = 0 - 1]
            /\ heap' = IF frame.op = "push_after_n"
                       THEN Alloc(heap, frame.v, frame.child)
                       ELSE heap
            /\ frame' = [frame EXCEPT !.pc = "store",
                            !.new = IF frame.op = "push_after_n"
                                    THEN Len(heap) + 1 ELSE @]
            /\ UNCHANGED status
       ELSE /\ status' = "already_borrowed"
            /\ UNCHANGED <<heap, borrows, frame>>
    /\ UNCHANGED <<lists, last, iters>>

(* the assignment through the RefMut, which is dropped with the statement, *)
(* and the rest of the call up to its return                               *)
store ==
    /\ Executing("store")
    /\ borrows' = [borrows EXCEPT ![Target] = 0]
    /\ frame' = Idle
    /\ heap' = CASE frame.op = "push_back" ->
                      [heap EXCEPT ![frame.node].next = frame.new]
                [] frame.op = "push_front" ->
                      [heap EXCEPT ![frame.new].next = frame.node]
                [] frame.op = "push_after_n" ->
                      [heap EXCEPT ![frame.node].next = frame.new]
                [] frame.op = "update_nth" ->
                      [heap EXCEPT ![frame.node].value = frame.v]
                [] frame.op = "split_on_nth" -> SeverAfter(heap, frame.node)
    /\ lists' = CASE frame.op = "push_back" ->
                      [lists EXCEPT ![frame.lst].tail = frame.new]
                 [] frame.op = "push_front" ->
                      [lists EXCEPT ![frame.lst].head = frame.new]
                 [] frame.op = "split_on_nth" ->
                      Append(lists, LinkedList(frame.child, lists[frame.lst].tail))
                 [] OTHER -> lists
    /\ UNCHANGED <<last, status, iters>>

NextSteps ==
    \/ \E i \in 1..MaxLists, v \in Values : call_push_back(i, v)
    \/ \E i \in 1..MaxLists, v \in Values : call_push_front(i, v)
    \/ \E op \in {"push_after_n", "get_nth", "update_nth"},
          i \in 1..MaxLists, n \in Indices, v \in Values : call_nth(op, i, n, v)
    \/ \E i \in 1..MaxLists, n \in Indices : call_split_on_nth(i, n)
    \/ next_take
    \/ next_clone
    \/ borrow_next
    \/ clone_next
    \/ borrow_mut
    \/ store

SpecSteps == Init /\ [][NextSteps]_vars

(* the calls that build a list by push_back and push_front only, with     *)
(* reads by get_nth in between                                             *)
NextPushes ==
    \/ \E v \in Values : push_back(1, v)
    \/ \E v \in Values : push_front(1, v)
    \/ \E n \in Indices : get_nth(1, n)

SpecPushes == Init /\ [][NextPushes]_vars

Spec == Init /\ [][Next]_vars

(***************************************************************************)
(* What the properties below talk about                                    *)
(***************************************************************************)
Range(f) == {f[k] : k \in DOMAIN f}

(* the list the last call was applied to, before and after the call *)
PreList == last.lists[last.lst]
PreSeq == ToSeq(last.heap, PreList)
CurList == lists[last.lst]
CurSeq == ToSeq(heap, CurList)

(* the cell allocated by the last call, when it allocated one *)
NewCell == Len(last.heap) + 1

(* the second list returned by the last call, when it was a successful split *)
SecList == lists[Len(lists)]

(* only push_back, push_front, push_after_n, update_nth and get_nth have   *)
(* been called so far: a split that returns adds a list or drops one, and  *)
(* a split that panics aborts the program                                  *)
NoSplitYet == Len(lists) = 1 /\ lists[1].live /\ status = "running"

(* tail is the last cell of the chain from head, and both are None on an  *)
(* empty list                                                              *)
WellFormed(h, l) ==
    IF l.head = Nil
    THEN l.tail = Nil
    ELSE /\ l.tail = ToSeq(h, l)[Len(ToSeq(h, l))]
         /\ h[l.tail].next = Nil

Pushes == {"push_back", "push_front", "push_after_n"}

(***************************************************************************)
(* C1: as long as only pushes and updates are called, every cell ever      *)
(* inserted is yielded exactly once by iteration from head, so the element *)
(* count is the number of successful insertions.                           *)
(***************************************************************************)
C1_AllInsertedReachable ==
    NoSplitYet =>
        /\ Len(ToSeq(heap, lists[1])) = Len(heap)
        /\ Range(ToSeq(heap, lists[1])) = 1..Len(heap)

(***************************************************************************)
(* C2: as long as only pushes and updates are called, the tail of a        *)
(* non-empty list is the last cell of the chain from head (count - 1 hops) *)
(* and its next is None.                                                   *)
(***************************************************************************)
C2_TailIsLast ==
    (NoSplitYet /\ lists[1].head # Nil) =>
        /\ lists[1].tail # Nil
        /\ IterNth(heap, lists[1].head, Len(ToSeq(heap, lists[1])) - 1) = lists[1].tail
        /\ heap[lists[1].tail].next = Nil

(***************************************************************************)
(* C3: in every list value, the lists returned by a split included, head   *)
(* is None iff tail is None iff iteration yields nothing.                  *)
(***************************************************************************)
C3_HeadNoneIffTailNone ==
    \A i \in 1..Len(lists) :
        lists[i].live =>
            /\ (lists[i].head = Nil) <=> (lists[i].tail = Nil)
            /\ (lists[i].head = Nil) <=> (ToSeq(heap, lists[i]) = <<>>)

(***************************************************************************)
(* C4: after a successful split_on_nth(n) of a well-formed list, the left  *)
(* list's head is the original head, its tail is the cell at position      *)
(* n - 1 whose next is now None, the right list's head is that cell's      *)
(* former next and the right list's tail is the original tail.             *)
(***************************************************************************)
C4_SplitHeadsAndTails ==
    (/\ last.op = "split_on_nth"
     /\ last.res = "Ok"
     /\ WellFormed(last.heap, PreList)) =>
        /\ CurList.head = PreList.head
        /\ CurList.tail = PreSeq[last.n]
        /\ heap[PreSeq[last.n]].next = Nil
        /\ SecList.head = last.heap[PreSeq[last.n]].next
        /\ SecList.tail = PreList.tail

(***************************************************************************)
(* C5: a push or update applied to one of the two lists returned by a      *)
(* split leaves the values yielded by the other one unchanged, and a       *)
(* pushed value appears in the list it was pushed onto.                    *)
(***************************************************************************)
C5_SplitListsIndependent ==
    (/\ Len(last.lists) = 2
     /\ last.lists[1].live /\ last.lists[2].live
     /\ last.op \in Pushes \cup {"update_nth"}
     /\ last.res = "Ok") =>
        /\ ValuesOf(heap, lists[3 - last.lst])
              = ValuesOf(last.heap, last.lists[3 - last.lst])
        /\ last.op \in Pushes =>
              /\ NewCell \in Range(CurSeq)
              /\ heap[NewCell].value = last.v

(***************************************************************************)
(* C6: split_on_nth(n) with 1 <= n <= count succeeds; the left list yields *)
(* the first n elements in order, the right list the remaining count - n   *)
(* in order, and no element is duplicated, lost or changed.                *)
(***************************************************************************)
C6_SplitPartition ==
    (/\ last.op = "split_on_nth"
     /\ 1 <= last.n
     /\ last.n <= Len(PreSeq)) =>
        /\ last.res = "Ok"
        /\ ToSeq(heap, CurList) = SubSeq(PreSeq, 1, last.n)
        /\ ToSeq(heap, SecList) = SubSeq(PreSeq, last.n + 1, Len(PreSeq))
        /\ ValuesOf(heap, CurList) \o ValuesOf(heap, SecList)
              = ValuesOf(last.heap, PreList)

C6_Witness ==
    /\ last.op = "split_on_nth"
    /\ last.res = "Ok"
    /\ 1 <= last.n
    /\ last.n < Len(PreSeq)
    /\ Len(PreSeq) >= 3

(***************************************************************************)
(* C7: split_on_nth(0) and split_on_nth(n) with n above the element count  *)
(* return the index-out-of-range error; neither aborts the program.        *)
(***************************************************************************)
C7_SplitOutOfRangeIsErr ==
    (/\ last.op = "split_on_nth"
     /\ (last.n = 0 \/ last.n > Len(PreSeq))) =>
        /\ last.res = "Err"
        /\ status = "running"

(***************************************************************************)
(* C8: split_on_nth(count) of a non-empty list succeeds, the left list     *)
(* yields all count elements in order and the right list is empty as a     *)
(* list made by new() is: head = tail = None, iteration yields nothing.    *)
(***************************************************************************)
C8_SplitAtCount ==
    (/\ last.op = "split_on_nth"
     /\ last.n >= 1
     /\ last.n = Len(PreSeq)) =>
        /\ last.res = "Ok"
        /\ ToSeq(heap, CurList) = PreSeq
        /\ ToSeq(heap, SecList) = <<>>
        /\ SecList.head = Nil
        /\ SecList.tail = Nil

(***************************************************************************)
(* C9: get_nth(n), update_nth(n, v) and push_after_n(n, v) with n at or    *)
(* above the element count return the error and change nothing: head,      *)
(* tail, every cell's next and value are as before, no cell is created.    *)
(***************************************************************************)
C9_FailedCallNoMutation ==
    (/\ last.op \in {"get_nth", "update_nth", "push_after_n"}
     /\ last.n >= Len(PreSeq)) =>
        /\ last.res = "Err"
        /\ heap = last.heap
        /\ lists = last.lists

C9_Witness ==
    /\ last.op = "push_after_n"
    /\ last.res = "Err"
    /\ Len(PreSeq) >= 2
    /\ last.n = Len(PreSeq)

(***************************************************************************)
(* C10: push_after_n(n, v) with n below the element count succeeds and the *)
(* list then yields the elements up to position n, then v, then the        *)
(* elements after position n: v is at position n + 1, earlier elements     *)
(* keep their position, later ones shift by one, the length grows by one.  *)
(***************************************************************************)
C10_PushAfterInserts ==
    (/\ last.op = "push_after_n"
     /\ last.n < Len(PreSeq)) =>
        /\ last.res = "Ok"
        /\ CurSeq = SubSeq(PreSeq, 1, last.n + 1) \o <<NewCell>>
                       \o SubSeq(PreSeq, last.n + 2, Len(PreSeq))
        /\ Len(CurSeq) = Len(PreSeq) + 1
        /\ heap[NewCell].value = last.v
        /\ IterNth(heap, CurList.head, last.n + 1) = NewCell
        /\ \A c \in Range(PreSeq) : heap[c].value = last.heap[c].value

C10_Witness ==
    /\ last.op = "push_after_n"
    /\ last.res = "Ok"
    /\ last.n + 1 < Len(PreSeq)
    /\ heap[NewCell].value = last.v
    /\ heap[NewCell].next = PreSeq[last.n + 2]

(***************************************************************************)
(* C11: get_nth(i) with i below the element count returns the cell that    *)
(* iteration from head yields at position i; with i at or above the count  *)
(* it returns the index-out-of-range error.                                *)
(***************************************************************************)
C11_GetNthAgreesWithIter ==
    last.op = "get_nth" =>
        IF last.n < Len(PreSeq)
        THEN /\ last.res = "Ok"
             /\ last.node = PreSeq[last.n + 1]
        ELSE /\ last.res = "Err"
             /\ last.node = Nil

C11_Witness ==
    /\ last.op = "get_nth"
    /\ last.res = "Ok"
    /\ last.n = 2
    /\ last.node = PreSeq[3]
    /\ last.node # 3

(***************************************************************************)
(* C12: update_nth(i, v) with i below the element count puts v at position *)
(* i and changes nothing else: the other values, head, tail, the element   *)
(* count and every next are as before, and no cell is created.             *)
(***************************************************************************)
C12_UpdateInPlace ==
    (/\ last.op = "update_nth"
     /\ last.n < Len(PreSeq)) =>
        /\ last.res = "Ok"
        /\ heap[PreSeq[last.n + 1]].value = last.v
        /\ lists = last.lists
        /\ Len(heap) = Len(last.heap)
        /\ CurSeq = PreSeq
        /\ \A c \in 1..Len(heap) :
              /\ heap[c].next = last.heap[c].next
              /\ c # PreSeq[last.n + 1] => heap[c].value = last.heap[c].value

C12_Witness ==
    /\ last.op = "update_nth"
    /\ last.res = "Ok"
    /\ last.n >= 1
    /\ last.heap[PreSeq[last.n + 1]].value # last.v
    /\ heap[PreSeq[last.n + 1]].value = last.v

(***************************************************************************)
(* C15: push_after_n changes no list's head or tail, whatever n is.  After *)
(* a successful push_after_n(count - 1, v) the former last cell's next is  *)
(* the new cell, and a tail that named the former last cell still does.    *)
(***************************************************************************)
C15_PushAfterKeepsHeadTail ==
    last.op = "push_after_n" =>
        /\ lists = last.lists
        /\ (last.res = "Ok" /\ last.n = Len(PreSeq) - 1) =>
              /\ heap[PreSeq[Len(PreSeq)]].next = NewCell
              /\ heap[NewCell].next = Nil
              /\ PreList.tail = PreSeq[Len(PreSeq)] =>
                    /\ CurList.tail = PreSeq[Len(PreSeq)]
                    /\ heap[CurList.tail].next = NewCell

C15_Witness ==
    /\ last.op = "push_after_n"
    /\ last.res = "Ok"
    /\ last.n = Len(PreSeq) - 1
    /\ PreList.tail = PreSeq[Len(PreSeq)]
    /\ CurList.tail # CurSeq[Len(CurSeq)]
    /\ CurSeq[Len(CurSeq)] = NewCell

(***************************************************************************)
(* C16: the chain of next from the head of every list is acyclic and ends  *)
(* at None, so an iterator started at head is exhausted after at most as   *)
(* many steps as cells were ever created.                                  *)
(***************************************************************************)
C16_IterationTerminates ==
    \A i \in 1..Len(lists) :
        lists[i].live =>
            LET s == ToSeq(heap, lists[i])
            IN /\ Len(s) <= Len(heap)
               /\ Cardinality(Range(s)) = Len(s)
               /\ s # <<>> => heap[s[Len(s)]].next = Nil

C16_Witness ==
    /\ Len(last.lists) = 2
    /\ last.op \in Pushes
    /\ last.res = "Ok"
    /\ lists[1].live /\ lists[2].live
    /\ Len(CurSeq) >= 2
    /\ Len(heap) = MaxNodes

(***************************************************************************)
(* C13: on a list built from empty by push_back and push_front calls,      *)
(* push_back(v) makes iteration yield the previous sequence followed by v  *)
(* and makes tail the cell holding v.                                      *)
(***************************************************************************)
C13_PushBackAppends ==
    last.op = "push_back" =>
        /\ CurSeq = Append(PreSeq, NewCell)
        /\ ValuesOf(heap, CurList) = Append(ValuesOf(last.heap, PreList), last.v)
        /\ CurList.tail = NewCell
        /\ heap[CurList.tail].value = last.v
        /\ PreSeq = <<>> => CurList.head = NewCell
        /\ PreSeq # <<>> => CurList.head = PreList.head

C13_Witness ==
    /\ last.op = "push_back"
    /\ Len(PreSeq) >= 2
    /\ PreSeq[1] # 1
    /\ CurSeq[Len(CurSeq)] = NewCell

(***************************************************************************)
(* C14: on a list built from empty by push_back and push_front calls,      *)
(* push_front(v) makes iteration yield v followed by the previous          *)
(* sequence, makes head the cell holding v and, on a non-empty list,       *)
(* leaves tail unchanged.                                                  *)
(***************************************************************************)
C14_PushFrontPrepends ==
    last.op = "push_front" =>
        /\ CurSeq = <<NewCell>> \o PreSeq
        /\ ValuesOf(heap, CurList) = <<last.v>> \o ValuesOf(last.heap, PreList)
        /\ CurList.head = NewCell
        /\ heap[CurList.head].value = last.v
        /\ PreSeq = <<>> => CurList.tail = NewCell
        /\ PreSeq # <<>> => CurList.tail = PreList.tail

C14_Witness ==
    /\ last.op = "push_front"
    /\ Len(PreSeq) >= 2
    /\ PreList.tail # 1
    /\ CurSeq[1] = NewCell
    /\ CurList.tail = PreList.tail

(***************************************************************************)
(* C17: iter(), next and get_nth leave head, tail and every cell as they   *)
(* were; a new iterator starts at the current head; every iterator has its *)
(* own cursor, which stands behind exactly the cells it has yielded itself; *)
(* and two traversals of a list with no mutation in between yield the same *)
(* cells, also when the first one was abandoned part-way.                  *)
(***************************************************************************)
C17_TraversalRestartable ==
    /\ last.op \in {"iter", "next", "get_nth"} =>
          heap = last.heap /\ lists = last.lists
    /\ last.op = "iter" =>
          /\ iters[Len(iters)].current = lists[last.lst].head
          /\ iters[Len(iters)].yielded = <<>>
    /\ \A k \in 1..Len(iters) :
          LET s == ToSeq(heap, lists[iters[k].lst])
              m == Len(iters[k].yielded)
          IN /\ m <= Len(s)
             /\ iters[k].yielded = SubSeq(s, 1, m)
             /\ iters[k].current = IF m < Len(s) THEN s[m + 1] ELSE Nil
    /\ \A j, k \in 1..Len(iters) :
          (/\ iters[j].lst = iters[k].lst
           /\ iters[j].current = Nil
           /\ iters[k].current = Nil) => iters[j].yielded = iters[k].yielded

C17_Witness ==
    /\ Len(iters) = 2
    /\ iters[1].lst = iters[2].lst
    /\ Len(iters[1].yielded) = 1
    /\ iters[1].current # Nil
    /\ iters[2].current = Nil
    /\ Len(iters[2].yielded) >= 2
    /\ iters[2].yielded[1] = iters[1].yielded[1]

(***************************************************************************)
(* C18: no call asks for a mutable borrow of a cell while another borrow   *)
(* of that cell is live: when a call is about to take a RefMut no cell is  *)
(* borrowed, while it holds the RefMut nothing else is borrowed, between   *)
(* calls nothing is borrowed, and the borrow check never panics.           *)
(***************************************************************************)
C18_NoBorrowConflict ==
    /\ status # "already_borrowed"
    /\ frame.pc \in {"idle", "next", "read", "write"} =>
          \A c \in 1..MaxNodes : borrows[c] = 0
    /\ frame.pc \in {"next_clone", "read_clone"} =>
          \A c \in 1..MaxNodes : borrows[c] = IF c = frame.node THEN 1 ELSE 0
    /\ frame.pc = "store" =>
          \A c \in 1..MaxNodes : borrows[c] = IF c = Target THEN 0 - 1 ELSE 0

C18_Witness ==
    /\ frame.op = "push_after_n"
    /\ frame.pc = "store"
    /\ frame.n = 1
    /\ borrows[frame.node] = 0 - 1
    /\ frame.node = lists[frame.lst].tail
    /\ status = "running"
====
